---------------------------- MODULE Spec2Model ----------------------------
(***************************************************************************)
(* Model of src/main.py: the POST /api/decision/analyze handler and the    *)
(* heuristic route generator _generate_recommendations.                    *)
(*                                                                         *)
(* A string is a sequence of one-character strings.  Three characters are  *)
(* written by name: "a_acute" (U+00E1), "A_acute" (U+00C1) and "le_sign"   *)
(* (U+2264); each stands for exactly one character.                        *)
(***************************************************************************)
EXTENDS Integers, Sequences, FiniteSets

VARIABLES pc, req, recs, budget, metadata, decision_id, payload, dbCalls,
          outcome, resp, trace, served

vars == <<pc, req, recs, budget, metadata, decision_id, payload, dbCalls,
          outcome, resp, trace, served>>

(***************************************************************************)
(* Bounds of the model.                                                    *)
(***************************************************************************)
MaxFrags == 2

MaxRequests == 3

(***************************************************************************)
(* Characters and the str methods the code uses.                           *)
(***************************************************************************)
UpperCase == <<"A","B","C","D","E","F","G","H","I","J","K","L","M","N","O",
               "P","Q","R","S","T","U","V","W","X","Y","Z","A_acute">>

LowerCase == <<"a","b","c","d","e","f","g","h","i","j","k","l","m","n","o",
               "p","q","r","s","t","u","v","w","x","y","z","a_acute">>

Digits == <<"0","1","2","3","4","5","6","7","8","9">>

WhitespaceChars == {" ", "\t"}

IsSpace(c) == c \in WhitespaceChars

IsDigit(c) == \E v \in 1..Len(Digits) : Digits[v] = c

\* str.lower(), one character
LowerChar(c) ==
    IF \E i \in 1..Len(UpperCase) : UpperCase[i] = c
    THEN LowerCase[CHOOSE i \in 1..Len(UpperCase) : UpperCase[i] = c]
    ELSE c

\* str.lower()
lower(s) == [i \in 1..Len(s) |-> LowerChar(s[i])]

\* a mutant of strip: the surrounding whitespace is kept
strip_keeps_whitespace(s) == s

\* str.strip()
strip(s) ==
    IF \A i \in 1..Len(s) : IsSpace(s[i])
    THEN << >>
    ELSE LET first == CHOOSE i \in 1..Len(s) :
                         /\ ~IsSpace(s[i])
                         /\ \A j \in 1..(i-1) : IsSpace(s[j])
             last  == CHOOSE i \in 1..Len(s) :
                         /\ ~IsSpace(s[i])
                         /\ \A j \in (i+1)..Len(s) : IsSpace(s[j])
         IN  SubSeq(s, first, last)

\* text[p:].startswith(lit), p counted from 1
StartsWith(text, p, lit) ==
    /\ p >= 1
    /\ p + Len(lit) - 1 <= Len(text)
    /\ SubSeq(text, p, p + Len(lit) - 1) = lit

\* k in text
Contains(text, k) == \E p \in 1..Len(text) : StartsWith(text, p, k)

\* any(k in text for k in keywords)
AnyIn(text, keywords) == \E i \in 1..Len(keywords) : Contains(text, keywords[i])

(***************************************************************************)
(* The budget pattern (\d{2,3})\s?(k|mil|000|k\s?mxn|mxn) and re.search.   *)
(***************************************************************************)
None == -1

Lit_k == <<"k">>

Lit_mil == <<"m","i","l">>

Lit_000 == <<"0","0","0">>

Lit_mxn == <<"m","x","n">>

Lit_k_mxn == <<"k"," ","m","x","n">>

NoUnit == << >>

\* group 2 tried at position p: the alternatives in the pattern's order, the
\* text of the first that matches
UnitAt(text, p) ==
    IF StartsWith(text, p, Lit_k) THEN Lit_k
    ELSE IF StartsWith(text, p, Lit_mil) THEN Lit_mil
    ELSE IF StartsWith(text, p, Lit_000) THEN Lit_000
    ELSE IF /\ StartsWith(text, p, Lit_k)
            /\ p + 1 <= Len(text)
            /\ IsSpace(text[p+1])
            /\ StartsWith(text, p + 2, Lit_mxn)
         THEN SubSeq(text, p, p + 4)
    ELSE IF StartsWith(text, p, Lit_k \o Lit_mxn) THEN Lit_k \o Lit_mxn
    ELSE IF StartsWith(text, p, Lit_mxn) THEN Lit_mxn
    ELSE NoUnit

\* \d{n} at position i
DigitsAt(text, i, n) ==
    /\ i + n - 1 <= Len(text)
    /\ \A j \in i..(i + n - 1) : IsDigit(text[j])

\* the backtracking order of \d{2,3}\s? : both quantifiers are greedy
Attempts == << <<3, 1>>, <<3, 0>>, <<2, 1>>, <<2, 0>> >>

\* the pattern matches at i with n digits and s whitespace characters
Try(text, i, n, s) ==
    /\ DigitsAt(text, i, n)
    /\ s = 1 => (i + n <= Len(text) /\ IsSpace(text[i + n]))
    /\ UnitAt(text, i + n + s) # NoUnit

NoMatch == [start |-> 0, group1 |-> << >>, group2 |-> << >>]

\* the match that starts at i, if any
MatchAt(text, i) ==
    IF \E a \in 1..Len(Attempts) : Try(text, i, Attempts[a][1], Attempts[a][2])
    THEN LET a == CHOOSE a \in 1..Len(Attempts) :
                     /\ Try(text, i, Attempts[a][1], Attempts[a][2])
                     /\ \A b \in 1..(a-1) :
                            ~Try(text, i, Attempts[b][1], Attempts[b][2])
             n == Attempts[a][1]
             s == Attempts[a][2]
         IN  [start  |-> i,
              group1 |-> SubSeq(text, i, i + n - 1),
              group2 |-> UnitAt(text, i + n + s)]
    ELSE NoMatch

\* a mutant of re_search: the last match in the text instead of the first
re_search_rightmost(text) ==
    IF \E i \in 1..Len(text) : MatchAt(text, i) # NoMatch
    THEN MatchAt(text, CHOOSE i \in 1..Len(text) :
                          /\ MatchAt(text, i) # NoMatch
                          /\ \A j \in (i+1)..Len(text) : MatchAt(text, j) = NoMatch)
    ELSE NoMatch

\* re.search(pattern, text): the match with the leftmost start
re_search(text) ==
    IF \E i \in 1..Len(text) : MatchAt(text, i) # NoMatch
    THEN MatchAt(text, CHOOSE i \in 1..Len(text) :
                          /\ MatchAt(text, i) # NoMatch
                          /\ \A j \in 1..(i-1) : MatchAt(text, j) = NoMatch)
    ELSE NoMatch

DigitVal(c) == (CHOOSE v \in 1..Len(Digits) : Digits[v] = c) - 1

RECURSIVE int(_)
\* int(m.group(1))
int(ds) ==
    IF ds = << >> THEN 0
    ELSE int(SubSeq(ds, 1, Len(ds) - 1)) * 10 + DigitVal(ds[Len(ds)])

\* a mutant of Multiplier: 000 counts as thousands too
Multiplier_always_1000(unit) == 1000

\* 1000 if m.group(2) in ["k", "mil", "k mxn", "mxn"] else 1
Multiplier(unit) ==
    IF unit \in {Lit_k, Lit_mil, Lit_k_mxn, Lit_mxn} THEN 1000 ELSE 1

\* the local budget of _generate_recommendations
ExtractBudget(text) ==
    LET m == re_search(text)
    IN  IF m # NoMatch THEN int(m.group1) * Multiplier(m.group2) ELSE None

(***************************************************************************)
(* The priority signals.                                                   *)
(***************************************************************************)
PortabilidadKeywords ==
    << <<"p","e","s","o">>, <<"l","i","g","e","r">>,
       <<"p","o","r","t","a_acute","t","i","l">>,
       <<"p","o","r","t","a","t","i","l">> >>

RendimientoKeywords ==
    << <<"r","e","n","d","e","r">>, <<"3","d">>, <<"l","u","m","i","o","n">>,
       <<"b","l","e","n","d","e","r">>, <<"r","e","v","i","t">>,
       <<"p","o","t","e","n","c","i","a">>, <<"g","p","u">> >>

ConfianzaKeywords ==
    << <<"d","u","r","a","b","i","l">>, <<"g","a","r","a","n","t">>,
       <<"s","o","p","o","r","t","e">>, <<"c","o","n","f","i">> >>

RuidoKeywords == << <<"s","i","l","e","n","c">>, <<"r","u","i","d","o">> >>

\* the list priorities after the four appends
DetectPriorities(text) ==
    (IF AnyIn(text, PortabilidadKeywords) THEN <<"portabilidad">> ELSE << >>)
    \o (IF AnyIn(text, RendimientoKeywords) THEN <<"rendimiento">> ELSE << >>)
    \o (IF AnyIn(text, ConfianzaKeywords) THEN <<"confianza">> ELSE << >>)
    \o (IF AnyIn(text, RuidoKeywords) THEN <<"ruido">> ELSE << >>)

\* x in priorities
InList(x, priorities) == \E i \in 1..Len(priorities) : priorities[i] = x

(***************************************************************************)
(* The three routes.  Titles, summaries and bullets are the source's       *)
(* literals written in ASCII; a bullet is a sequence of pieces so that the *)
(* interpolated tail of the budget bullet is kept character by character.  *)
(***************************************************************************)
RECURSIVE str(_)
\* the decimal digits of n >= 0
str(n) ==
    IF n < 10 THEN <<Digits[n + 1]>>
    ELSE str(n \div 10) \o <<Digits[(n % 10) + 1]>>

RECURSIVE FormatThousands(_)
\* f"{n:,}" for n >= 0
FormatThousands(n) ==
    IF n < 1000 THEN str(n)
    ELSE FormatThousands(n \div 1000) \o <<",">>
         \o <<Digits[((n % 1000) \div 100) + 1],
              Digits[((n % 100) \div 10) + 1],
              Digits[(n % 10) + 1]>>

\* the truth value of "budget" in: ... if budget else "."
Truthy(b) == b # None /\ b # 0

\* (f" (<= {budget:,} MXN)" if budget else ".")
BudgetSuffix(b) ==
    IF Truthy(b)
    THEN <<" ","(","le_sign"," ">> \o FormatThousands(b) \o <<" ","M","X","N",")">>
    ELSE <<".">>

BudgetBulletStem == "Mantiene el presupuesto bajo control"

RouteBalance(b) ==
    [id          |-> "route_balance",
     title       |-> "Ruta A - Equilibrio rendimiento / precio",
     summary     |-> "Balancea potencia suficiente con cuidado del presupuesto.",
     bullets     |-> << <<"Prioriza GPU y RAM sobre detalles cosmeticos.">>,
                        <<BudgetBulletStem>> \o BudgetSuffix(b),
                        <<"Acepta un peso medio para no sacrificar demasiada potencia.">>,
                        <<"Propone marcas con buen soporte tecnico para minimizar riesgos.">> >>,
     badge       |-> "Balance",
     recommended |-> TRUE]

RoutePower ==
    [id          |-> "route_power",
     title       |-> "Ruta B - Maxima potencia para cargas pesadas",
     summary     |-> "Prioriza rendimiento sostenido para 3D y render, asumiendo trade-offs.",
     bullets     |-> << <<"Maximiza GPU/CPU y memoria para proyectos exigentes.">>,
                        <<"Puede exceder un poco el presupuesto si el beneficio es claro.">>,
                        <<"Acepta mayor peso y menor bateria para ganar velocidad.">>,
                        <<"Sugiere sistemas de enfriamiento mas robustos (algo mas de ruido).">> >>,
     badge       |-> "Riesgo alto",
     recommended |-> FALSE]

RoutePortability ==
    [id          |-> "route_portability",
     title       |-> "Ruta C - Ultra ligera, consciente del sacrificio",
     summary     |-> "Optimiza portabilidad y ergonomia, sacrificando potencia tope.",
     bullets     |-> << <<"Elige chasis delgados y materiales ligeros.">>,
                        <<"Rinde bien en tareas de diseno medio; renderizados mas lentos.">>,
                        <<"Se enfoca en autonomia y menor ruido cuando es posible.">>,
                        <<"Se asegura de que el peso total sea comodo para transporte diario.">> >>,
     badge       |-> "Conservadora",
     recommended |-> FALSE]

\* recs after the three appends
BuildRoutes(b) == <<RouteBalance(b), RoutePower, RoutePortability>>

\* a mutant of ApplyPriorities: a single winner, rendimiento clears portability
ApplyPriorities_single_winner(rs, priorities) ==
    LET r1 == IF InList("portabilidad", priorities)
              THEN [rs EXCEPT ![1].recommended = FALSE, ![3].recommended = TRUE]
              ELSE rs
    IN  IF InList("rendimiento", priorities)
        THEN [r1 EXCEPT ![1].recommended = FALSE, ![2].recommended = TRUE,
                        ![3].recommended = FALSE]
        ELSE r1

\* the two overrides, in the source's order
ApplyPriorities(rs, priorities) ==
    LET r1 == IF InList("portabilidad", priorities)
              THEN [rs EXCEPT ![1].recommended = FALSE, ![3].recommended = TRUE]
              ELSE rs
    IN  IF InList("rendimiento", priorities)
        THEN [r1 EXCEPT ![1].recommended = FALSE, ![2].recommended = TRUE]
        ELSE r1

\* a mutant of _generate_recommendations: the recommended routes are moved
\* to the front of the list
_generate_recommendations_reordered(prompt) ==
    LET text == lower(prompt)
        rs   == ApplyPriorities(BuildRoutes(ExtractBudget(text)),
                                DetectPriorities(text))
    IN  SelectSeq(rs, LAMBDA r : r.recommended)
        \o SelectSeq(rs, LAMBDA r : ~r.recommended)

\* a mutant of _generate_recommendations: the power flag set by an earlier
\* call is still set in a later one
_generate_recommendations_shared(prompt) ==
    LET text == lower(prompt)
        rs   == ApplyPriorities(BuildRoutes(ExtractBudget(text)),
                                DetectPriorities(text))
    IN  IF served > 0 THEN [rs EXCEPT ![2].recommended = TRUE] ELSE rs

_generate_recommendations(prompt) ==
    LET text == lower(prompt)
    IN  ApplyPriorities(BuildRoutes(ExtractBudget(text)), DetectPriorities(text))

(***************************************************************************)
(* Inputs.                                                                 *)
(***************************************************************************)
\* the prompts of the specification's examples, and their neighbours
P_laptop_25k_mxn ==
    <<"l","a","p","t","o","p"," ","d","e"," ","2","5","k"," ","m","x","n">>

P_LAPTOP_25K_MXN ==
    <<"L","A","P","T","O","P"," ","D","E"," ","2","5","K"," ","M","X","N">>

P_20_mil_pesos ==
    <<"2","0"," ","m","i","l"," ","p","e","s","o","s">>

P_250000 ==
    <<"2","5","0","0","0","0">>

P_presupuesto_30000 ==
    <<"p","r","e","s","u","p","u","e","s","t","o"," ","d","e"," ","3","0","0","0","0">>

P_laptop_00k ==
    <<"q","u","i","e","r","o"," ","l","a","p","t","o","p"," ","d","e"," ","0","0","k">>

P_laptop_2500k ==
    <<"u","n","a"," ","l","a","p","t","o","p"," ","d","e"," ","2","5","0","0","k">>

P_25_k_o_30_mil ==
    <<"q","u","i","e","r","o"," ","2","5"," ","k"," ","o"," ","3","0"," ","m","i","l">>

P_gpu_blender ==
    <<"n","e","c","e","s","i","t","o"," ","g","p","u"," ","p","a","r","a"," ","b","l","e","n","d","e","r">>

P_portatil_ligera ==
    <<"u","n","a"," ","p","o","r","t","a_acute","t","i","l"," ","y"," ","l","i","g","e","r","a">>

P_portatil_render_3d ==
    <<"p","o","r","t","a_acute","t","i","l"," ","p","a","r","a"," ","r","e","n","d","e","r"," ","3","d">>

P_PORTATIL_GPU_40_MIL ==
    <<"P","O","R","T","A_acute","T","I","L"," ","Y"," ","G","P","U"," ","4","0"," ","M","I","L">>

P_laptop_nueva ==
    <<"q","u","i","e","r","o"," ","l","a","p","t","o","p",":"," ","n","u","e","v","a">>

\* prompts too short before or after trimming
P_empty ==
    << >>

P_hola ==
    <<"h","o","l","a">>

P_padded_25k_gpu_peso ==
    <<"\t","2","5","k"," ","g","p","u"," ","p","e","s","o"," ","\t">>

P_quiero_laptop ==
    <<"q","u","i","e","r","o"," ","l","a","p","t","o","p",":"," ">>

Examples ==
    { P_laptop_25k_mxn,
      P_LAPTOP_25K_MXN,
      P_20_mil_pesos,
      P_250000,
      P_presupuesto_30000,
      P_laptop_00k,
      P_laptop_2500k,
      P_25_k_o_30_mil,
      P_gpu_blender,
      P_portatil_ligera,
      P_portatil_render_3d,
      P_PORTATIL_GPU_40_MIL,
      P_laptop_nueva }

\* the pieces the other prompts of the generator are put together from
Fragments ==
    { <<"2">>, <<"2","5">>, <<"2","5","0">>, <<"3","0","0","0","0">>,
      <<"0">>, <<"0","0">>, <<"0","0","0">>,
      <<" ">>, <<"\t">>, <<"x">>,
      <<"k">>, <<"K">>, <<"m","i","l">>, <<"m","x","n">>,
      <<"p","e","s","o">>, <<"l","i","g","e","r">>,
      <<"p","o","r","t","a_acute","t","i","l">>, <<"p","o","r","t","a","t","i","l">>,
      <<"r","e","n","d","e","r">>, <<"3","d">>, <<"l","u","m","i","o","n">>,
      <<"b","l","e","n","d","e","r">>, <<"r","e","v","i","t">>,
      <<"p","o","t","e","n","c","i","a">>, <<"G","P","U">> }

RECURSIVE Bodies(_)
\* the concatenations of at most n fragments
Bodies(n) ==
    IF n = 0 THEN { << >> }
    ELSE LET shorter == Bodies(n - 1)
         IN  shorter \cup { b \o f : b \in shorter, f \in Fragments }

\* the inputs of the generator
GenPrompts == Examples \cup Bodies(MaxFrags)

\* the request bodies sent to the endpoint
ReqPrompts ==
    { P_laptop_25k_mxn, P_presupuesto_30000, P_laptop_00k, P_gpu_blender,
      P_portatil_ligera, P_PORTATIL_GPU_40_MIL, P_laptop_nueva,
      P_empty, P_hola, P_padded_25k_gpu_peso, P_quiero_laptop }

Slots == {"s1", "s2"}

Times == {"t1", "t2"}

Ids == {"id1", "id2"}

\* how the try block of analyze_decision ends: the import of database fails,
\* create_document raises, create_document returns an identifier
Outcomes == {"missing", "raises", "ok"}

(***************************************************************************)
(* The request handler.                                                    *)
(***************************************************************************)
MinLength == 15

MinTrimmed == 15

Null == "null"

NoRecs == << >>

NoMeta == [received_at |-> "", length |-> 0]

NoPayload ==
    [prompt |-> << >>, robot_message |-> "", recommendations |-> NoRecs,
     metadata |-> NoMeta, type |-> ""]

NoResp ==
    [code |-> 0, detail |-> "", robot_message |-> "", status |-> "",
     recommendations |-> NoRecs, decision_id |-> Null, metadata |-> NoMeta]

GuidanceMessage ==
    "La descripcion es muy corta. Agrega proposito, presupuesto y prioridades."

RobotMessage ==
    "Entiendo tu objetivo y voy a priorizar lo que mas te importa. Aqui tienes 2-3 rutas de decision con sus trade-offs. Prefieres optimizar portabilidad, rendimiento puro o un balance claro?"

\* a mutant of ExceptException: only the failed import is caught
ExceptException_import_only(o) == o = "missing"

\* except Exception: the outcomes of the try block the handler absorbs
ExceptException(o) == o \in {"missing", "raises"}

\* a mutant of AfterPersist: a failed create_document is tried again
AfterPersist_retry(o) == IF o = "raises" THEN "persist" ELSE "respond"

\* where the handler goes on after the try statement
AfterPersist(o) == "respond"

\* not req.prompt or len(req.prompt.strip()) < 15
TooShort(prompt) == Len(prompt) = 0 \/ Len(strip(prompt)) < MinTrimmed

\* the dict payload handed to create_document
PayloadOf(s) ==
    [prompt |-> req[s], robot_message |-> RobotMessage,
     recommendations |-> recs[s], metadata |-> metadata[s],
     type |-> "decision_route"]

\* a worker takes the next request; the locals of its last one are gone
Receive(s, p) ==
    /\ pc[s] \in {"idle", "done"}
    /\ served < MaxRequests
    /\ pc' = [pc EXCEPT ![s] = "received"]
    /\ req' = [req EXCEPT ![s] = p]
    /\ recs' = [recs EXCEPT ![s] = NoRecs]
    /\ budget' = [budget EXCEPT ![s] = None]
    /\ metadata' = [metadata EXCEPT ![s] = NoMeta]
    /\ decision_id' = [decision_id EXCEPT ![s] = Null]
    /\ payload' = [payload EXCEPT ![s] = NoPayload]
    /\ dbCalls' = [dbCalls EXCEPT ![s] = 0]
    /\ outcome' = [outcome EXCEPT ![s] = "none"]
    /\ resp' = [resp EXCEPT ![s] = NoResp]
    /\ trace' = [trace EXCEPT ![s] = << >>]
    /\ UNCHANGED served

\* the body is validated against AnalyzeRequest before the handler runs; a
\* body that fails is answered 422 by the framework
ParseBody(s) ==
    /\ pc[s] = "received"
    /\ IF Len(req[s]) < MinLength
       THEN /\ resp' = [resp EXCEPT ![s] = [NoResp EXCEPT !.code = 422,
                                              !.detail = "string_too_short"]]
            /\ pc' = [pc EXCEPT ![s] = "done"]
       ELSE /\ pc' = [pc EXCEPT ![s] = "validate"]
            /\ UNCHANGED resp
    /\ UNCHANGED <<req, recs, budget, metadata, decision_id, payload, dbCalls,
                   outcome, trace, served>>

\* the length check of analyze_decision
Validate(s) ==
    /\ pc[s] = "validate"
    /\ trace' = [trace EXCEPT ![s] = Append(@, "validate")]
    /\ IF TooShort(req[s])
       THEN /\ resp' = [resp EXCEPT ![s] = [NoResp EXCEPT !.code = 400,
                                              !.detail = GuidanceMessage]]
            /\ pc' = [pc EXCEPT ![s] = "done"]
       ELSE /\ pc' = [pc EXCEPT ![s] = "generate"]
            /\ UNCHANGED resp
    /\ UNCHANGED <<req, recs, budget, metadata, decision_id, payload, dbCalls,
                   outcome, served>>

\* recs = _generate_recommendations(req.prompt), then robot_message,
\* decision_id = None and metadata
Generate(s) ==
    /\ pc[s] = "generate"
    /\ recs' = [recs EXCEPT ![s] = _generate_recommendations(req[s])]
    /\ budget' = [budget EXCEPT ![s] = ExtractBudget(lower(req[s]))]
    /\ \E t \in Times :
          metadata' = [metadata EXCEPT ![s] =
                          [received_at |-> t, length |-> Len(req[s])]]
    /\ decision_id' = [decision_id EXCEPT ![s] = Null]
    /\ served' = served + 1
    /\ trace' = [trace EXCEPT ![s] = Append(@, "generate")]
    /\ pc' = [pc EXCEPT ![s] = "persist"]
    /\ UNCHANGED <<req, payload, dbCalls, outcome, resp>>

\* the try statement around create_document
Persist(s) ==
    /\ pc[s] = "persist"
    /\ \E o \in Outcomes, id \in Ids :
          /\ outcome' = [outcome EXCEPT ![s] = o]
          /\ IF o = "missing"
             THEN UNCHANGED <<payload, dbCalls>>
             ELSE /\ payload' = [payload EXCEPT ![s] = PayloadOf(s)]
                  /\ dbCalls' = [dbCalls EXCEPT ![s] = @ + 1]
          /\ IF o = "ok"
             THEN /\ decision_id' = [decision_id EXCEPT ![s] = id]
                  /\ pc' = [pc EXCEPT ![s] = AfterPersist(o)]
                  /\ UNCHANGED resp
             ELSE IF ExceptException(o)
             THEN /\ decision_id' = [decision_id EXCEPT ![s] = Null]
                  /\ pc' = [pc EXCEPT ![s] = AfterPersist(o)]
                  /\ UNCHANGED resp
             ELSE /\ resp' = [resp EXCEPT ![s] = [NoResp EXCEPT !.code = 500,
                                                    !.detail = "Internal Server Error"]]
                  /\ pc' = [pc EXCEPT ![s] = "done"]
                  /\ UNCHANGED decision_id
    /\ trace' = [trace EXCEPT ![s] = Append(@, "persist")]
    /\ UNCHANGED <<req, recs, budget, metadata, served>>

\* return AnalyzeResponse(...)
Respond(s) ==
    /\ pc[s] = "respond"
    /\ resp' = [resp EXCEPT ![s] =
                   [code |-> 200, detail |-> "", robot_message |-> RobotMessage,
                    status |-> "ready", recommendations |-> recs[s],
                    decision_id |-> decision_id[s], metadata |-> metadata[s]]]
    /\ trace' = [trace EXCEPT ![s] = Append(@, "respond")]
    /\ pc' = [pc EXCEPT ![s] = "done"]
    /\ UNCHANGED <<req, recs, budget, metadata, decision_id, payload, dbCalls,
                   outcome, served>>

Init ==
    /\ pc = [s \in Slots |-> "idle"]
    /\ req = [s \in Slots |-> << >>]
    /\ recs = [s \in Slots |-> NoRecs]
    /\ budget = [s \in Slots |-> None]
    /\ metadata = [s \in Slots |-> NoMeta]
    /\ decision_id = [s \in Slots |-> Null]
    /\ payload = [s \in Slots |-> NoPayload]
    /\ dbCalls = [s \in Slots |-> 0]
    /\ outcome = [s \in Slots |-> "none"]
    /\ resp = [s \in Slots |-> NoResp]
    /\ trace = [s \in Slots |-> << >>]
    /\ served = 0

Next ==
    \E s \in Slots :
       \/ \E p \in ReqPrompts : Receive(s, p)
       \/ ParseBody(s)
       \/ Validate(s)
       \/ Generate(s)
       \/ Persist(s)
       \/ Respond(s)

\* the requests of the endpoint, handled by the workers in any interleaving
Spec == Init /\ [][Next]_vars

(***************************************************************************)
(* The generator alone, called on every input of GenPrompts.               *)
(***************************************************************************)
GenSlot == "s1"

GenInit ==
    /\ \E p \in GenPrompts : req = [s \in Slots |-> IF s = GenSlot THEN p ELSE << >>]
    /\ pc = [s \in Slots |-> IF s = GenSlot THEN "generate" ELSE "idle"]
    /\ recs = [s \in Slots |-> NoRecs]
    /\ budget = [s \in Slots |-> None]
    /\ metadata = [s \in Slots |-> NoMeta]
    /\ decision_id = [s \in Slots |-> Null]
    /\ payload = [s \in Slots |-> NoPayload]
    /\ dbCalls = [s \in Slots |-> 0]
    /\ outcome = [s \in Slots |-> "none"]
    /\ resp = [s \in Slots |-> NoResp]
    /\ trace = [s \in Slots |-> << >>]
    /\ served = 0

GenNext == \E s \in Slots : Generate(s)

GenSpec == GenInit /\ [][GenNext]_vars

(***************************************************************************)
(* What the claims speak of, stated apart from the operators above.        *)
(***************************************************************************)
\* the length of p without its leading and trailing whitespace
TrimmedLength(p) ==
    Cardinality({ i \in 1..Len(p) :
                    /\ \E j \in 1..i : ~IsSpace(p[j])
                    /\ \E j \in i..Len(p) : ~IsSpace(p[j]) })

\* p passes both length checks
PassesValidation(p) == Len(p) >= 15 /\ TrimmedLength(p) >= 15

RouteIds(rs) == [i \in 1..Len(rs) |-> rs[i].id]

\* the signal portabilidad, on the prompt
SignalP(p) ==
    \E k \in { <<"p","e","s","o">>, <<"l","i","g","e","r">>,
               <<"p","o","r","t","a_acute","t","i","l">>,
               <<"p","o","r","t","a","t","i","l">> } : Contains(lower(p), k)

\* the signal rendimiento, on the prompt
SignalR(p) ==
    \E k \in { <<"r","e","n","d","e","r">>, <<"3","d">>,
               <<"l","u","m","i","o","n">>, <<"b","l","e","n","d","e","r">>,
               <<"r","e","v","i","t">>, <<"p","o","t","e","n","c","i","a">>,
               <<"g","p","u">> } : Contains(lower(p), k)

\* the generator has returned in slot s
Generated(s) == recs[s] # NoRecs

\* C1: every request whose prompt passes validation is answered 200 with
\* exactly three recommendations whose ids are route_balance, route_power,
\* route_portability in this order, whatever the signals in the prompt and
\* however the persistence step ended.
C1_ThreeRoutesInOrder ==
    \A s \in Slots :
       (pc[s] = "done" /\ PassesValidation(req[s])) =>
          /\ resp[s].code = 200
          /\ Len(resp[s].recommendations) = 3
          /\ RouteIds(resp[s].recommendations)
                = <<"route_balance", "route_power", "route_portability">>

\* C1 witness: a request with a budget and both signals, answered after
\* create_document raised
C1_Witness ==
    \E s \in Slots :
       /\ pc[s] = "done" /\ resp[s].code = 200
       /\ outcome[s] = "raises"
       /\ budget[s] > 0
       /\ SignalP(req[s]) /\ SignalR(req[s])
       /\ Len(resp[s].recommendations) = 3

\* C2: the recommended flags are a function of the two signals only:
\* balance = neither, power = rendimiento, portability = portabilidad.
C2_FlagsFollowSignals ==
    \A s \in Slots :
       Generated(s) =>
          /\ recs[s][1].recommended = (~SignalP(req[s]) /\ ~SignalR(req[s]))
          /\ recs[s][2].recommended = SignalR(req[s])
          /\ recs[s][3].recommended = SignalP(req[s])

\* C2 witness: both signals, power and portability both recommended
C2_Witness ==
    \E s \in Slots :
       /\ Generated(s)
       /\ SignalP(req[s]) /\ SignalR(req[s])
       /\ ~recs[s][1].recommended
       /\ recs[s][2].recommended /\ recs[s][3].recommended

\* C3: a request whose prompt has trimmed length < 15 ends in an error
\* response; the generator is never run for it and create_document is never
\* called.
C3_ShortNeverGenerates ==
    \A s \in Slots :
       (pc[s] # "idle" /\ TrimmedLength(req[s]) < 15) =>
          /\ pc[s] \in {"received", "validate", "done"}
          /\ recs[s] = NoRecs
          /\ dbCalls[s] = 0
          /\ payload[s] = NoPayload
          /\ \A i \in 1..Len(trace[s]) : trace[s][i] = "validate"
          /\ pc[s] = "done" => resp[s].code \in {400, 422}

\* C3 witness: a prompt long enough only by its surrounding whitespace,
\* rejected
C3_Witness ==
    \E s \in Slots :
       /\ pc[s] = "done"
       /\ Len(req[s]) >= 15 /\ TrimmedLength(req[s]) < 15
       /\ TrimmedLength(req[s]) > 0
       /\ resp[s].code = 400

\* C4: every request whose prompt has trimmed length < 15 is answered 400
\* with the fixed guidance message, also when the raw prompt is shorter
\* than 15 or empty.
C4_ShortIs400 ==
    \A s \in Slots :
       (pc[s] = "done" /\ TrimmedLength(req[s]) < 15) =>
          /\ resp[s].code = 400
          /\ resp[s].detail = GuidanceMessage

\* C5: when the database module is missing or create_document raises, the
\* request is still answered 200 with decision_id null, and with the
\* recommendations, robot_message and status of a request whose
\* persistence succeeded.
C5_PersistenceFailureAbsorbed ==
    \A s \in Slots :
       (pc[s] = "done" /\ outcome[s] \in {"missing", "raises"}) =>
          /\ resp[s].code = 200
          /\ resp[s].decision_id = Null
          /\ resp[s].status = "ready"
          /\ resp[s].robot_message = RobotMessage
          /\ Len(resp[s].recommendations) = 3
          /\ \A t \in Slots :
                (pc[t] = "done" /\ outcome[t] = "ok" /\ req[t] = req[s]) =>
                   /\ resp[t].code = resp[s].code
                   /\ resp[t].recommendations = resp[s].recommendations
                   /\ resp[t].robot_message = resp[s].robot_message
                   /\ resp[t].status = resp[s].status

\* C5 witness: the same prompt answered once after create_document raised
\* and once after it returned an identifier
C5_Witness ==
    \E s, t \in Slots :
       /\ pc[s] = "done" /\ outcome[s] = "raises" /\ resp[s].code = 200
       /\ pc[t] = "done" /\ outcome[t] = "ok" /\ resp[t].decision_id # Null
       /\ req[s] = req[t]

\* a place of the budget pattern in text: n digits at i, then w whitespace
\* characters, then the unit u
IsPlace(text, i, n, w, u) ==
    /\ i + n - 1 <= Len(text)
    /\ \A j \in i..(i + n - 1) : IsDigit(text[j])
    /\ w = 1 => (i + n <= Len(text) /\ IsSpace(text[i + n]))
    /\ StartsWith(text, i + n + w, u)

ThousandUnits ==
    { <<"k">>, <<"m","i","l">>, <<"k"," ","m","x","n">>, <<"m","x","n">> }

FaceValueUnits == { <<"0","0","0">> }

\* the places of the pattern in text, as <<i, n, w, u>>
Places(text) ==
    { q \in (1..Len(text)) \X {2, 3} \X {0, 1} \X (ThousandUnits \cup FaceValueUnits) :
         IsPlace(text, q[1], q[2], q[3], q[4]) }

\* the budget the place q stands for
PlaceValue(text, q) ==
    int(SubSeq(text, q[1], q[1] + q[2] - 1))
       * (IF q[4] \in ThousandUnits THEN 1000 ELSE 1)

\* C6: the budget is read at the leftmost place where a 2-3 digit number
\* is followed, after at most one whitespace character, by a unit: the
\* number times 1000 for k, mil, "k mxn" and mxn, the number itself for
\* 000; no place, no budget.  "laptop de 25k mxn" gives 25000,
\* "20 mil pesos" gives 20000 and "250000" gives 250.
C6_LeftmostPlaceDecidesBudget ==
    \A s \in Slots :
       Generated(s) =>
          LET text == lower(req[s])
              pl   == Places(text)
          IN  /\ pl = {} => budget[s] = None
              /\ pl # {} =>
                    \E q \in pl :
                       /\ \A r \in pl : q[1] <= r[1]
                       /\ budget[s] = PlaceValue(text, q)
              /\ req[s] = P_laptop_25k_mxn => budget[s] = 25000
              /\ req[s] = P_20_mil_pesos => budget[s] = 20000
              /\ req[s] = P_250000 => budget[s] = 250

\* C6 witness: a text with two places of different value, the budget read
\* at the first
C6_Witness ==
    \E s \in Slots :
       /\ Generated(s)
       /\ \E q, r \in Places(lower(req[s])) :
             /\ q[1] < r[1]
             /\ PlaceValue(lower(req[s]), q) # PlaceValue(lower(req[s]), r)
             /\ budget[s] = PlaceValue(lower(req[s]), q)

\* the positions of the digits of text
DigitPositions(text) == { i \in 1..Len(text) : IsDigit(text[i]) }

\* text holds exactly one number, a run of digits, and none of the unit
\* words k, mil, mxn follows it directly or after one whitespace character
BareFigureOnly(text) ==
    LET d == DigitPositions(text)
    IN  /\ d # {}
        /\ \A i, j \in d : \A k \in i..j : k \in d
        /\ LET b == CHOOSE i \in d : \A j \in d : j <= i
           IN  \A w \in {0, 1}, u \in { <<"k">>, <<"m","i","l">>, <<"m","x","n">> } :
                  ~ /\ w = 1 => (b + 1 <= Len(text) /\ IsSpace(text[b + 1]))
                    /\ StartsWith(text, b + 1 + w, u)

\* the second bullet of the balance route
BudgetBullet(s) == recs[s][1].bullets[2]

\* C7 as claimed: a prompt whose only number is a bare figure with no unit
\* word after it yields an unset budget, and the budget bullet carries no
\* amount.
C7_BareFigureUnset ==
    \A s \in Slots :
       (Generated(s) /\ BareFigureOnly(lower(req[s]))) =>
          /\ budget[s] = None
          /\ BudgetBullet(s) = <<BudgetBulletStem, ".">>

\* C7 as amended: a prompt whose only number is a bare figure with no unit
\* word after it yields an unset budget exactly when the figure holds no
\* 2-3 digits directly followed by 000; when it does, the budget is the
\* leftmost such 2-3 digit number at face value (below 1000), and the
\* budget bullet carries it when it is not 0.  "presupuesto de 30000"
\* yields 30.
C7_BareFigureFaceValue ==
    \A s \in Slots :
       (Generated(s) /\ BareFigureOnly(lower(req[s]))) =>
          LET text == lower(req[s])
              pl   == { q \in (1..Len(text)) \X {2, 3} :
                          IsPlace(text, q[1], q[2], 0, <<"0","0","0">>) }
          IN  /\ budget[s] = None <=> pl = {}
              /\ pl # {} =>
                    /\ \E q \in pl :
                          /\ \A r \in pl : q[1] <= r[1]
                          /\ budget[s] = int(SubSeq(text, q[1], q[1] + q[2] - 1))
                    /\ budget[s] < 1000
              /\ BudgetBullet(s) =
                    IF budget[s] = None \/ budget[s] = 0
                    THEN <<BudgetBulletStem, ".">>
                    ELSE <<BudgetBulletStem, " ", "(", "le_sign", " ">>
                         \o str(budget[s]) \o <<" ", "M", "X", "N", ")">>
              /\ req[s] = P_presupuesto_30000 => budget[s] = 30

\* C7 witness: "presupuesto de 30000", budget 30 and the amount in the bullet
C7_Witness ==
    \E s \in Slots :
       /\ Generated(s)
       /\ req[s] = P_presupuesto_30000
       /\ BareFigureOnly(lower(req[s]))
       /\ budget[s] = 30
       /\ BudgetBullet(s) = <<BudgetBulletStem, " ", "(", "le_sign", " ", "3", "0",
                              " ", "M", "X", "N", ")">>

\* C8: the budget bullet ends with the formatted figure whenever a budget
\* was detected, 0 included, and with a plain period only when none was;
\* the bullets of the other two routes do not depend on the budget.
C8_BulletCarriesDetectedBudget ==
    \A s \in Slots :
       Generated(s) =>
          /\ budget[s] # None =>
                BudgetBullet(s) = <<BudgetBulletStem, " ", "(", "le_sign", " ">>
                                  \o FormatThousands(budget[s])
                                  \o <<" ", "M", "X", "N", ")">>
          /\ budget[s] = None => BudgetBullet(s) = <<BudgetBulletStem, ".">>
          /\ recs[s][2].bullets = RoutePower.bullets
          /\ recs[s][3].bullets = RoutePortability.bullets

IsPrefix(a, b) == Len(a) <= Len(b) /\ a = SubSeq(b, 1, Len(a))

\* C9: one request runs validate, generate, persist, respond in this
\* order; create_document is called at most once, never before validation
\* has passed and the recommendations are built, never again after a
\* failure; the recommendations of the persisted payload are those of the
\* response.
C9_OrderAndAtMostOnce ==
    \A s \in Slots :
       /\ IsPrefix(trace[s], <<"validate", "generate", "persist", "respond">>)
       /\ dbCalls[s] <= 1
       /\ dbCalls[s] >= 1 =>
             /\ PassesValidation(req[s])
             /\ Generated(s)
             /\ IsPrefix(<<"validate", "generate", "persist">>, trace[s])
             /\ payload[s].recommendations = recs[s]
       /\ (pc[s] = "done" /\ resp[s].code = 200) =>
             /\ trace[s] = <<"validate", "generate", "persist", "respond">>
             /\ dbCalls[s] = 1 =>
                   payload[s].recommendations = resp[s].recommendations

\* C9 witness: a request answered after its one call of create_document
\* raised
C9_Witness ==
    \E s \in Slots :
       /\ pc[s] = "done" /\ resp[s].code = 200
       /\ outcome[s] = "raises"
       /\ dbCalls[s] = 1
       /\ payload[s].recommendations = resp[s].recommendations
       /\ Len(resp[s].recommendations) = 3

=============================================================================
